---------------------------- MODULE Spec2Model ----------------------------
(***************************************************************************)
(* Credential store, personal record store and screening engine of the     *)
(* Streamlit well-being platform (src/mental_health.py).                   *)
(*                                                                         *)
(* The SQLite database is the shared state; every browser session runs the *)
(* script in its own thread with its own st.session_state.  A write is two *)
(* steps, the INSERT (which takes SQLite's write lock and is not yet       *)
(* visible to other connections) and the commit; reads see committed rows. *)
(***************************************************************************)
EXTENDS Integers, Sequences, FiniteSets, TLC

----------------------------------------------------------------------------
(* Bounds of the model *)

\* rows the users table may hold
MaxUsers == 2
\* rows the three personal-record tables may hold together
MaxRows == 2
\* CURRENT_TIMESTAMP has one-second resolution; seconds that pass in a run
MaxClock == 1
\* screening runs in the screening-engine specification
MaxRuns == 1

Sessions == {"s1", "s2"}

\* text typed into the username and password boxes
Usernames == {"", "alice", "moderator"}
Passwords == {"pw1", "modpass123"}
\* text typed into the journal text area ("" is the empty box)
JournalTexts == {"", "dear diary"}
MoodNotes == {""}
\* mood scores a user tries to submit: the ends of the scale and their neighbours
MoodAttempts == {0, 1, 5, 6}

----------------------------------------------------------------------------
(* Configuration *)

MOD_PASSWORD == "modpass123"

PHQ9_THRESHOLDS ==
    [none_mild |-> <<0, 10>>, moderate |-> <<10, 15>>,
     moderately_severe |-> <<15, 20>>, severe |-> <<20, 100>>]

GAD7_THRESHOLDS ==
    [none_mild |-> <<0, 10>>, moderate |-> <<10, 15>>, severe |-> <<15, 22>>]

\* x in range(r[1], r[2])
InRange(x, r) == r[1] <= x /\ x < r[2]

PHQ9 == "PHQ-9"
GAD7 == "GAD-7"
Tests == {PHQ9, GAD7}

\* a variant with the two question lists exchanged
NumQuestions_exchanged(test) == IF test = "PHQ-9" THEN 7 ELSE 9

\* len(questions) of each test
NumQuestions(test) == IF test = PHQ9 THEN 9 ELSE 7

\* options = ["Not at all", ..., "Nearly every day"]; scores[option] is its index
AnswerScores == 0..3

\* the slider of the mood page: st.slider(label, 1, 5, 3)
MoodSliderMin == 1
MoodSliderMax == 5

EMERGENCY_HELPLINE == "EMERGENCY_HELPLINE"
ProfessionalWarning ==
    "Your score indicates you may benefit from talking to a mental health professional."
InvalidLogin == "Invalid username or password"
AccountCreated == "Account created! Please log in."
UsernameExists == "Username already exists."
JournalSaved == "Journal entry saved!"
JournalEmpty == "Please write something before saving."
MoodLogged == "Mood logged successfully!"

----------------------------------------------------------------------------
(* Screening engine *)

RECURSIVE sum(_)
sum(results) ==
    IF results = <<>> THEN 0 ELSE Head(results) + sum(Tail(results))

\* a variant with the upper ends of the ranges included
phq9_category_closed(total_score) ==
    IF total_score <= 10 THEN "None to Mild Depression"
    ELSE IF total_score <= 15 THEN "Moderate Depression"
    ELSE IF total_score <= 20 THEN "Moderately Severe Depression"
    ELSE IF total_score < 100 THEN "Severe Depression"
    ELSE "Unknown"

phq9_category(total_score) ==
    IF InRange(total_score, PHQ9_THRESHOLDS.none_mild) THEN "None to Mild Depression"
    ELSE IF InRange(total_score, PHQ9_THRESHOLDS.moderate) THEN "Moderate Depression"
    ELSE IF InRange(total_score, PHQ9_THRESHOLDS.moderately_severe)
         THEN "Moderately Severe Depression"
    ELSE IF InRange(total_score, PHQ9_THRESHOLDS.severe) THEN "Severe Depression"
    ELSE "Unknown"

\* a variant whose last range ends at the PHQ-9 boundary 20
gad7_category_short(total_score) ==
    IF InRange(total_score, <<0, 10>>) THEN "None to Mild Anxiety"
    ELSE IF InRange(total_score, <<10, 15>>) THEN "Moderate Anxiety"
    ELSE IF InRange(total_score, <<15, 20>>) THEN "Severe Anxiety"
    ELSE "Unknown"

gad7_category(total_score) ==
    IF InRange(total_score, GAD7_THRESHOLDS.none_mild) THEN "None to Mild Anxiety"
    ELSE IF InRange(total_score, GAD7_THRESHOLDS.moderate) THEN "Moderate Anxiety"
    ELSE IF InRange(total_score, GAD7_THRESHOLDS.severe) THEN "Severe Anxiety"
    ELSE "Unknown"

\* a variant that labels both tests with the PHQ-9 ranges
category_of_phq9(test, total_score) == phq9_category(total_score)

category_of(test, total_score) ==
    IF test = PHQ9 THEN phq9_category(total_score) ELSE gad7_category(total_score)

\* a variant that escalates only above 10
escalates_above(total_score) == total_score > 10

\* if total_score >= 10: st.warning(...); st.info(EMERGENCY_HELPLINE)
escalates(total_score) == total_score >= 10

crisis_content(total_score) ==
    IF escalates(total_score) THEN {ProfessionalWarning, EMERGENCY_HELPLINE} ELSE {}

----------------------------------------------------------------------------
(* Credential helpers *)

\* hashlib.sha256(password.encode()).hexdigest() on the passwords of the model
hash_password(password) ==
    CASE password = "pw1" ->
           "c592df4a86933b92addc9842402ddf198c638ea9be58916ee6e3734e1e3152f8"
      [] password = "modpass123" ->
           "e4f7d5b845c7d4e20c3eaf77aa95b5b875f208921ef0811e5a0b045d0083c99f"
      [] password = "pw2" ->
           "93915a0a4bf8f634cb1856494dd4304472ad46b9827f541f76b6761c49cc55b0"
      [] password = "" ->
           "e3b0c44298fc1c149afbf4c8996fb92427ae41e4649b934ca495991b7852b855"


----------------------------------------------------------------------------
(* State *)

VARIABLES
    users,              \* committed rows of table users
    journal_entries,    \* committed rows of table journal_entries
    mood_entries,       \* committed rows of table mood_entries
    screening_results,  \* committed rows of table screening_results
    txn,                \* <<>>, or the one uncommitted INSERT and its connection
    clock,              \* CURRENT_TIMESTAMP, in seconds
    session,            \* st.session_state of each browser session
    form,               \* the screening page's selectbox and radio widgets
    issued,             \* history: the signups that returned True, with the row id
    last                \* what the most recent script step did and displayed

vars == <<users, journal_entries, mood_entries, screening_results, txn, clock,
          session, form, issued, last>>

db == <<users, journal_entries, mood_entries, screening_results>>

\* del st.session_state.username / del st.session_state.user_id
NoUsername == "<deleted>"
NoUserId == -1
\* a variant in which the moderator session keeps the id of no user
ModUserId_unset == NoUserId
\* user_id of the built-in moderator
ModUserId == 0

LoggedOut ==
    [logged_in |-> FALSE, is_moderator |-> FALSE, current_page |-> "Home",
     username |-> NoUsername, user_id |-> NoUserId, cred |-> <<>>]

\* the pages that touch the stores, and one that does not
FeaturePages == {"My Journal", "Mood Tracker", "Self-Screening", "Resources"}

zeros(n) == [i \in 1..n |-> 0]

\* st.selectbox and st.radio start at their first option
DefaultForm == [test |-> PHQ9, answers |-> zeros(NumQuestions(PHQ9))]

Event(op, s) ==
    [op |-> op, s |-> s, username |-> "", password |-> "", ok |-> FALSE,
     user |-> <<>>, shown |-> {}, listed |-> <<>>, run |-> <<>>]

TotalRows == Len(journal_entries) + Len(mood_entries) + Len(screening_results)

\* the script of session s is not between an INSERT and its commit
Idle(s) == \A i \in 1..Len(txn) : txn[i].session # s
\* SQLite grants the write lock to one connection at a time
LockFree == txn = <<>>

----------------------------------------------------------------------------
(* Ordered reads *)

\* a variant of the query without its WHERE clause
owned_unscoped(rows, user_id) == rows

owned(rows, user_id) == SelectSeq(rows, LAMBDA r : r.user_id = user_id)

\* the orders ORDER BY timestamp may return rows in (ties in any order)
orderings(rows, descending) ==
    LET n == Len(rows)
    IN  {[i \in 1..n |-> rows[p[i]]] :
            p \in {q \in [1..n -> 1..n] :
                     /\ \A i, j \in 1..n : i # j => q[i] # q[j]
                     /\ \A i, j \in 1..n : i < j =>
                            IF descending
                            THEN rows[q[i]].timestamp >= rows[q[j]].timestamp
                            ELSE rows[q[i]].timestamp <= rows[q[j]].timestamp}}

\* a variant that also reads the row of an INSERT not yet committed
journal_list_dirty(rows, user_id) ==
    LET pending == SelectSeq(txn, LAMBDA t : t.table = "journal_entries")
    IN  orderings(owned(rows \o [i \in 1..Len(pending) |-> pending[i].row],
                        user_id), TRUE)

\* SELECT timestamp, entry_text FROM journal_entries
\*   WHERE user_id = {user_id} ORDER BY timestamp DESC
journal_list(rows, user_id) == orderings(owned(rows, user_id), TRUE)

\* SELECT timestamp, mood_score FROM mood_entries
\*   WHERE user_id = {user_id} ORDER BY timestamp ASC
mood_list(rows, user_id) == orderings(owned(rows, user_id), FALSE)

\* what rendering a page reads from the store
page_list(page, user_id) ==
    CASE page = "My Journal" -> journal_list(journal_entries, user_id)
      [] page = "Mood Tracker" -> mood_list(mood_entries, user_id)
      [] OTHER -> {<<>>}

----------------------------------------------------------------------------
(* Credential store *)

\* a variant of the query that matches the username alone
login_by_username(username, password) ==
    LET found == SelectSeq(users, LAMBDA r : r.username = username)
    IN  IF found = <<>> THEN <<>> ELSE <<Head(found)>>

\* c.execute("SELECT * FROM users WHERE username = ? AND password = ?", ...);
\* c.fetchone(): <<row>> for the first matching row, <<>> for None
login(username, password) ==
    LET match(r) == r.username = username /\ r.password = hash_password(password)
        found == SelectSeq(users, match)
    IN  IF found = <<>> THEN <<>> ELSE <<Head(found)>>

\* a variant of the schema without the UNIQUE constraint
IntegrityError_never(username) == FALSE

\* username TEXT NOT NULL UNIQUE: the INSERT raises sqlite3.IntegrityError
IntegrityError(username) ==
    \E i \in 1..Len(users) : users[i].username = username

\* a variant that counts from 0
next_id_zero(rows) == Len(rows)

\* id INTEGER PRIMARY KEY AUTOINCREMENT, in a table no row is ever deleted from
next_id(rows) == Len(rows) + 1

\* a variant whose error tells an unknown username from a wrong password
login_form_submit_telling(sess, username, password) ==
    IF username = "moderator" /\ password = MOD_PASSWORD
    THEN [session |-> [sess EXCEPT !.logged_in = TRUE, !.is_moderator = TRUE,
                                   !.username = "moderator", !.user_id = 0,
                                   !.cred = <<username, password>>],
          user |-> <<>>, shown |-> {}]
    ELSE LET user == login(username, password)
         IN  IF user # <<>>
             THEN [session |-> [sess EXCEPT !.logged_in = TRUE,
                                            !.username = user[1].username,
                                            !.user_id = user[1].id,
                                            !.cred = <<username, password>>],
                   user |-> user, shown |-> {}]
             ELSE [session |-> sess, user |-> <<>>,
                   shown |-> IF IntegrityError(username)
                             THEN {"Wrong password"} ELSE {"Unknown username"}]

\* a variant that treats any account named "moderator" as the moderator
login_form_submit_by_name(sess, username, password) ==
    IF username = "moderator" /\ password = MOD_PASSWORD
    THEN [session |-> [sess EXCEPT !.logged_in = TRUE, !.is_moderator = TRUE,
                                   !.username = "moderator", !.user_id = ModUserId,
                                   !.cred = <<username, password>>],
          user |-> <<>>, shown |-> {}]
    ELSE LET user == login(username, password)
         IN  IF user # <<>>
             THEN [session |-> [sess EXCEPT
                                  !.logged_in = TRUE,
                                  !.is_moderator = (user[1].username = "moderator"),
                                  !.username = user[1].username,
                                  !.user_id = user[1].id,
                                  !.cred = <<username, password>>],
                   user |-> user, shown |-> {}]
             ELSE [session |-> sess, user |-> <<>>, shown |-> {InvalidLogin}]

\* a variant that consults the store before the moderator branch
login_form_submit_store_first(sess, username, password) ==
    LET user == login(username, password)
    IN  IF user # <<>>
        THEN [session |-> [sess EXCEPT !.logged_in = TRUE,
                                       !.username = user[1].username,
                                       !.user_id = user[1].id,
                                       !.cred = <<username, password>>],
              user |-> user, shown |-> {}]
        ELSE IF username = "moderator" /\ password = MOD_PASSWORD
             THEN [session |-> [sess EXCEPT !.logged_in = TRUE,
                                            !.is_moderator = TRUE,
                                            !.username = "moderator",
                                            !.user_id = ModUserId,
                                            !.cred = <<username, password>>],
                   user |-> <<>>, shown |-> {}]
             ELSE [session |-> sess, user |-> <<>>, shown |-> {InvalidLogin}]

\* the Login form of the sidebar: the new session state, the row login
\* returned (<<>> when it was not called or returned None), what is displayed
login_form_submit(sess, username, password) ==
    IF username = "moderator" /\ password = MOD_PASSWORD
    THEN [session |-> [sess EXCEPT !.logged_in = TRUE, !.is_moderator = TRUE,
                                   !.username = "moderator", !.user_id = ModUserId,
                                   !.cred = <<username, password>>],
          user |-> <<>>, shown |-> {}]
    ELSE LET user == login(username, password)
         IN  IF user # <<>>
             THEN [session |-> [sess EXCEPT !.logged_in = TRUE,
                                            !.username = user[1].username,
                                            !.user_id = user[1].id,
                                            !.cred = <<username, password>>],
                   user |-> user, shown |-> {}]
             ELSE [session |-> sess, user |-> <<>>, shown |-> {InvalidLogin}]

LoginSubmit(s, username, password) ==
    /\ ~session[s].logged_in
    /\ Idle(s)
    /\ LET out == login_form_submit(session[s], username, password)
       IN  /\ session' = [session EXCEPT ![s] = out.session]
           /\ last' = [Event("login", s) EXCEPT !.username = username,
                                                !.password = password,
                                                !.ok = out.session.logged_in,
                                                !.user = out.user,
                                                !.shown = out.shown]
    /\ UNCHANGED <<db, txn, clock, form, issued>>

\* a variant whose statement is INSERT OR REPLACE
SignupSubmit_replace(s, new_username, new_password) ==
    /\ ~session[s].logged_in
    /\ Idle(s)
    /\ LockFree
    /\ IF IntegrityError(new_username)
       THEN /\ users' = [i \in 1..Len(users) |->
                           IF users[i].username = new_username
                           THEN [users[i] EXCEPT
                                   !.password = hash_password(new_password)]
                           ELSE users[i]]
            /\ last' = [Event("signup", s) EXCEPT !.username = new_username,
                                                  !.password = new_password,
                                                  !.ok = TRUE,
                                                  !.shown = {AccountCreated}]
            /\ txn' = txn
       ELSE /\ Len(users) < MaxUsers
            /\ users' = users
            /\ txn' = <<[session |-> s, table |-> "users",
                         row |-> [id |-> next_id(users),
                                  username |-> new_username,
                                  password |-> hash_password(new_password)],
                         input |-> <<new_username, new_password>>]>>
            /\ last' = [Event("signup_insert", s) EXCEPT !.username = new_username,
                                                         !.password = new_password]
    /\ UNCHANGED <<journal_entries, mood_entries, screening_results, clock,
                   session, form, issued>>

\* signup, up to and including c.execute(INSERT): either the constraint
\* fails and signup returns False, or the row waits for conn.commit().
\* While another connection holds the write lock the INSERT waits.
SignupSubmit(s, new_username, new_password) ==
    /\ ~session[s].logged_in
    /\ Idle(s)
    /\ LockFree
    /\ IF IntegrityError(new_username)
       THEN /\ last' = [Event("signup", s) EXCEPT !.username = new_username,
                                                  !.password = new_password,
                                                  !.ok = FALSE,
                                                  !.shown = {UsernameExists}]
            /\ txn' = txn
       ELSE /\ Len(users) < MaxUsers
            /\ txn' = <<[session |-> s, table |-> "users",
                         row |-> [id |-> next_id(users),
                                  username |-> new_username,
                                  password |-> hash_password(new_password)],
                         input |-> <<new_username, new_password>>]>>
            /\ last' = [Event("signup_insert", s) EXCEPT !.username = new_username,
                                                         !.password = new_password]
    /\ UNCHANGED <<db, clock, session, form, issued>>

\* a variant that logs the new user in
SignupCommit_auto_login(s) ==
    /\ txn # <<>>
    /\ txn[1].session = s
    /\ txn[1].table = "users"
    /\ users' = Append(users, txn[1].row)
    /\ txn' = <<>>
    /\ issued' = issued \cup {[id |-> txn[1].row.id, s |-> s,
                               username |-> txn[1].input[1],
                               password |-> txn[1].input[2]]}
    /\ session' = [session EXCEPT ![s] =
                     [@ EXCEPT !.logged_in = TRUE,
                               !.username = txn[1].row.username,
                               !.user_id = txn[1].row.id,
                               !.cred = txn[1].input]]
    /\ last' = [Event("signup", s) EXCEPT !.username = txn[1].input[1],
                                          !.password = txn[1].input[2],
                                          !.ok = TRUE,
                                          !.shown = {AccountCreated}]
    /\ UNCHANGED <<journal_entries, mood_entries, screening_results, clock,
                   form>>

\* conn.commit(); return True; st.success("Account created! Please log in.")
SignupCommit(s) ==
    /\ txn # <<>>
    /\ txn[1].session = s
    /\ txn[1].table = "users"
    /\ users' = Append(users, txn[1].row)
    /\ txn' = <<>>
    /\ issued' = issued \cup {[id |-> txn[1].row.id, s |-> s,
                               username |-> txn[1].input[1],
                               password |-> txn[1].input[2]]}
    /\ last' = [Event("signup", s) EXCEPT !.username = txn[1].input[1],
                                          !.password = txn[1].input[2],
                                          !.ok = TRUE,
                                          !.shown = {AccountCreated}]
    /\ UNCHANGED <<journal_entries, mood_entries, screening_results, clock,
                   session, form>>

\* a variant of Logout that leaves is_moderator as it is
Logout_keep_moderator(s) ==
    /\ session[s].logged_in
    /\ Idle(s)
    /\ session' = [session EXCEPT ![s] =
                     [@ EXCEPT !.logged_in = FALSE,
                               !.current_page = "Home", !.username = NoUsername,
                               !.user_id = NoUserId, !.cred = <<>>]]
    /\ form' = [form EXCEPT ![s] = DefaultForm]
    /\ last' = Event("logout", s)
    /\ UNCHANGED <<db, txn, clock, issued>>

Logout(s) ==
    /\ session[s].logged_in
    /\ Idle(s)
    /\ session' = [session EXCEPT ![s] =
                     [@ EXCEPT !.logged_in = FALSE, !.is_moderator = FALSE,
                               !.current_page = "Home", !.username = NoUsername,
                               !.user_id = NoUserId, !.cred = <<>>]]
    /\ form' = [form EXCEPT ![s] = DefaultForm]
    /\ last' = Event("logout", s)
    /\ UNCHANGED <<db, txn, clock, issued>>

----------------------------------------------------------------------------
(* Navigation *)

\* a card of the Home page: current_page = feature, then the rerun renders it
GoTo(s, feature) ==
    /\ session[s].logged_in
    /\ Idle(s)
    /\ session[s].current_page = "Home"
    /\ session' = [session EXCEPT ![s].current_page = feature]
    /\ \E listed \in page_list(feature, session[s].user_id) :
          last' = [Event("page", s) EXCEPT !.listed = listed]
    /\ UNCHANGED <<db, txn, clock, form, issued>>

\* "Back to Home"; the widgets of the page left are dropped
BackHome(s) ==
    /\ session[s].logged_in
    /\ Idle(s)
    /\ session[s].current_page # "Home"
    /\ session' = [session EXCEPT ![s].current_page = "Home"]
    /\ form' = [form EXCEPT ![s] = DefaultForm]
    /\ last' = Event("page", s)
    /\ UNCHANGED <<db, txn, clock, issued>>

\* any rerun of a feature page with no button pressed
Rerun(s) ==
    /\ session[s].logged_in
    /\ Idle(s)
    /\ session[s].current_page # "Home"
    /\ \E listed \in page_list(session[s].current_page, session[s].user_id) :
          last' = [Event("page", s) EXCEPT !.listed = listed]
    /\ UNCHANGED <<db, txn, clock, session, form, issued>>

\* a second passes
Tick ==
    /\ clock < MaxClock
    /\ clock' = clock + 1
    /\ UNCHANGED <<db, txn, session, form, issued, last>>

----------------------------------------------------------------------------
(* Personal record store *)

\* c.execute(INSERT ...) of a page: the row waits for conn.commit()
insert(s, table, row, input) ==
    /\ LockFree
    /\ TotalRows < MaxRows
    /\ txn' = <<[session |-> s, table |-> table, row |-> row, input |-> input]>>

on_page(s, page) ==
    /\ session[s].logged_in
    /\ Idle(s)
    /\ session[s].current_page = page

committing(s, table) ==
    /\ txn # <<>>
    /\ txn[1].session = s
    /\ txn[1].table = table

\* "Save Entry" of journal_page, up to and including the INSERT
SaveEntry(s, entry) ==
    /\ on_page(s, "My Journal")
    /\ IF entry # ""
       THEN /\ insert(s, "journal_entries",
                      [id |-> next_id(journal_entries),
                       user_id |-> session[s].user_id,
                       timestamp |-> clock,
                       entry_text |-> entry,
                       by |-> session[s].cred], <<entry>>)
            /\ last' = Event("journal_insert", s)
       ELSE /\ txn' = txn
            /\ \E listed \in journal_list(journal_entries, session[s].user_id) :
                  last' = [Event("journal", s) EXCEPT !.shown = {JournalEmpty},
                                                      !.listed = listed]
    /\ UNCHANGED <<db, clock, session, form, issued>>

\* a variant that writes over the newest entry instead of adding one
SaveEntryCommit_overwrite(s) ==
    /\ committing(s, "journal_entries")
    /\ journal_entries' =
          IF journal_entries = <<>> THEN <<txn[1].row>>
          ELSE [journal_entries EXCEPT ![Len(journal_entries)] = txn[1].row]
    /\ txn' = <<>>
    /\ \E listed \in journal_list(journal_entries', session[s].user_id) :
          last' = [Event("journal", s) EXCEPT !.ok = TRUE,
                                              !.shown = {JournalSaved},
                                              !.listed = listed]
    /\ UNCHANGED <<users, mood_entries, screening_results, clock, session, form,
                   issued>>

\* conn.commit(); st.success; st.experimental_rerun(), which lists the entries
SaveEntryCommit(s) ==
    /\ committing(s, "journal_entries")
    /\ journal_entries' = Append(journal_entries, txn[1].row)
    /\ txn' = <<>>
    /\ \E listed \in journal_list(journal_entries', session[s].user_id) :
          last' = [Event("journal", s) EXCEPT !.ok = TRUE,
                                              !.shown = {JournalSaved},
                                              !.listed = listed]
    /\ UNCHANGED <<users, mood_entries, screening_results, clock, session, form,
                   issued>>

\* a variant of the slider from 0 to 6
mood_slider_wide == 0..6

\* the values st.slider("Rate your mood ...", 1, 5, 3) can return
mood_slider == MoodSliderMin..MoodSliderMax

\* "Log Mood" of mood_tracker_page, up to and including the INSERT
LogMood(s, mood_score, mood_notes) ==
    /\ on_page(s, "Mood Tracker")
    /\ mood_score \in mood_slider
    /\ insert(s, "mood_entries",
              [id |-> next_id(mood_entries),
               user_id |-> session[s].user_id,
               timestamp |-> clock,
               mood_score |-> mood_score,
               mood_notes |-> mood_notes,
               by |-> session[s].cred], <<mood_score, mood_notes>>)
    /\ last' = Event("mood_insert", s)
    /\ UNCHANGED <<db, clock, session, form, issued>>

\* conn.commit(); st.success; then the mood history is read
LogMoodCommit(s) ==
    /\ committing(s, "mood_entries")
    /\ mood_entries' = Append(mood_entries, txn[1].row)
    /\ txn' = <<>>
    /\ \E listed \in mood_list(mood_entries', session[s].user_id) :
          last' = [Event("mood", s) EXCEPT !.ok = TRUE,
                                           !.shown = {MoodLogged},
                                           !.listed = listed]
    /\ UNCHANGED <<users, journal_entries, screening_results, clock, session,
                   form, issued>>

----------------------------------------------------------------------------
(* Screening page *)

AllAnswers(test) == [1..NumQuestions(test) -> AnswerScores]

\* the answer sheets the full system is explored with: every sheet of
\* AllAnswers is explored in SpecScreening
SampleAnswers(test) ==
    IF test = PHQ9
    THEN {<<3, 3, 3, 1, 0, 0, 0, 0, 0>>, <<3, 3, 3, 3, 3, 3, 3, 3, 3>>}
    ELSE {<<3, 3, 3, 0, 0, 0, 0>>}

\* st.selectbox("Choose a screening test:"): the radios of the test shown
\* start at "Not at all"
SelectTest(s, test) ==
    /\ on_page(s, "Self-Screening")
    /\ form[s].test # test
    /\ form' = [form EXCEPT ![s] = [test |-> test,
                                    answers |-> zeros(NumQuestions(test))]]
    /\ last' = Event("page", s)
    /\ UNCHANGED <<db, txn, clock, session, issued>>

\* the radios of the test are set
SetAnswers(s, answers) ==
    /\ on_page(s, "Self-Screening")
    /\ form[s].answers # answers
    /\ form' = [form EXCEPT ![s].answers = answers]
    /\ last' = Event("page", s)
    /\ UNCHANGED <<db, txn, clock, session, issued>>

\* a variant that leaves the last answer out of the total
screening_run_short(test, results) ==
    LET total_score == sum(SubSeq(results, 1, Len(results) - 1))
    IN  [test |-> test, answers |-> results, total_score |-> total_score,
         category |-> category_of(test, total_score)]

\* total_score and category of a "Calculate My ... Score" press
screening_run(test, results) ==
    LET total_score == sum(results)
    IN  [test |-> test, answers |-> results, total_score |-> total_score,
         category |-> category_of(test, total_score)]

\* a variant that shows the warning and the helpline before saving
Calculate_warn_first(s) ==
    /\ on_page(s, "Self-Screening")
    /\ LET run == screening_run(form[s].test, form[s].answers)
       IN  /\ insert(s, "screening_results",
                     [id |-> next_id(screening_results),
                      user_id |-> session[s].user_id,
                      test_type |-> run.test,
                      timestamp |-> clock,
                      score |-> run.total_score,
                      category |-> run.category,
                      by |-> session[s].cred], <<run>>)
           /\ last' = [Event("screening_insert", s) EXCEPT
                         !.run = <<run>>,
                         !.shown = crisis_content(run.total_score)]
    /\ UNCHANGED <<db, clock, session, form, issued>>

\* "Calculate My PHQ-9 / GAD-7 Score", up to and including the INSERT
Calculate(s) ==
    /\ on_page(s, "Self-Screening")
    /\ LET run == screening_run(form[s].test, form[s].answers)
       IN  /\ insert(s, "screening_results",
                     [id |-> next_id(screening_results),
                      user_id |-> session[s].user_id,
                      test_type |-> run.test,
                      timestamp |-> clock,
                      score |-> run.total_score,
                      category |-> run.category,
                      by |-> session[s].cred], <<run>>)
           /\ last' = [Event("screening_insert", s) EXCEPT !.run = <<run>>]
    /\ UNCHANGED <<db, clock, session, form, issued>>

\* conn.commit(); if total_score >= 10: the warning and the helpline
CalculateCommit(s) ==
    /\ committing(s, "screening_results")
    /\ screening_results' = Append(screening_results, txn[1].row)
    /\ txn' = <<>>
    /\ last' = [Event("screening", s) EXCEPT
                  !.ok = TRUE,
                  !.run = txn[1].input,
                  !.shown = crisis_content(txn[1].input[1].total_score)]
    /\ UNCHANGED <<users, journal_entries, mood_entries, clock, session, form,
                   issued>>

----------------------------------------------------------------------------
(* Specifications *)

Init ==
    /\ users = <<>>
    /\ journal_entries = <<>>
    /\ mood_entries = <<>>
    /\ screening_results = <<>>
    /\ txn = <<>>
    /\ clock = 0
    /\ session = [s \in Sessions |-> LoggedOut]
    /\ form = [s \in Sessions |-> DefaultForm]
    /\ issued = {}
    /\ last = Event("init", "none")

Credentials(s) ==
    \/ \E u \in Usernames, p \in Passwords : LoginSubmit(s, u, p)
    \/ \E u \in Usernames, p \in Passwords : SignupSubmit(s, u, p)
    \/ SignupCommit(s)
    \/ Logout(s)

Pages(s) ==
    \/ \E feature \in FeaturePages : GoTo(s, feature)
    \/ BackHome(s)
    \/ Rerun(s)

Records(s) ==
    \/ \E entry \in JournalTexts : SaveEntry(s, entry)
    \/ SaveEntryCommit(s)
    \/ \E v \in MoodAttempts, notes \in MoodNotes : LogMood(s, v, notes)
    \/ LogMoodCommit(s)

Screening(s) ==
    \/ \E test \in Tests : SelectTest(s, test)
    \/ \E answers \in SampleAnswers(form[s].test) : SetAnswers(s, answers)
    \/ Calculate(s)
    \/ CalculateCommit(s)

Next ==
    \/ \E s \in Sessions : Credentials(s) \/ Pages(s) \/ Records(s) \/ Screening(s)
    \/ Tick

\* the whole system
Spec == Init /\ [][Next]_vars

\* The slices below restrict Spec to the sessions and operations a group of
\* properties is about, so that each can be explored exhaustively.

\* the credential store under two concurrent sessions
NextCredentials == \E s \in Sessions : Credentials(s)

SpecCredentials == Init /\ [][NextCredentials]_vars

\* the personal record store as one session uses it, signing up, logging
\* in and out as a stored user, as a stored user named "moderator" and as
\* the built-in moderator
RecordUsernames == {"alice", "moderator"}
RecordPages == {"My Journal", "Mood Tracker"}

NextRecords ==
    \/ \E s \in {"s1"} :
          \/ \E u \in RecordUsernames : SignupSubmit(s, u, "pw1")
          \/ SignupCommit(s)
          \/ \E u \in RecordUsernames, p \in Passwords : LoginSubmit(s, u, p)
          \/ Logout(s)
          \/ \E feature \in RecordPages : GoTo(s, feature)
          \/ BackHome(s)
          \/ Rerun(s)
          \/ Records(s)
    \/ Tick

SpecRecords == Init /\ [][NextRecords]_vars

\* the four relations together as one session uses them within one second:
\* SpecRecords with the Self-Screening page, the radios left as they start
NextStore ==
    \/ \E s \in {"s1"} :
          \/ \E u \in RecordUsernames : SignupSubmit(s, u, "pw1")
          \/ SignupCommit(s)
          \/ \E u \in RecordUsernames, p \in Passwords : LoginSubmit(s, u, p)
          \/ Logout(s)
          \/ Pages(s)
          \/ Records(s)
          \/ \E test \in Tests : SelectTest(s, test)
          \/ Calculate(s)
          \/ CalculateCommit(s)

SpecStore == Init /\ [][NextStore]_vars

\* two sessions sharing the record store: a stored user and the moderator,
\* each possibly logged in from both sessions, on the journal and the mood
\* tracker
InitShared ==
    /\ users = <<[id |-> 1, username |-> "alice",
                  password |-> hash_password("pw1")]>>
    /\ issued = {[id |-> 1, s |-> "s1", username |-> "alice", password |-> "pw1"]}
    /\ journal_entries = <<>>
    /\ mood_entries = <<>>
    /\ screening_results = <<>>
    /\ txn = <<>>
    /\ clock = 0
    /\ session = [s \in Sessions |-> LoggedOut]
    /\ form = [s \in Sessions |-> DefaultForm]
    /\ last = Event("init", "none")

NextShared ==
    \/ \E s \in Sessions :
          \/ LoginSubmit(s, "alice", "pw1")
          \/ LoginSubmit(s, "moderator", MOD_PASSWORD)
          \/ \E feature \in RecordPages : GoTo(s, feature)
          \/ Rerun(s)
          \/ SaveEntry(s, "dear diary")
          \/ SaveEntryCommit(s)
          \/ LogMood(s, MoodSliderMax, "")
          \/ LogMoodCommit(s)
    \/ Tick

SpecShared == InitShared /\ [][NextShared]_vars

\* the screening engine on every answer sheet: a user who signed up and
\* logged in has opened the Self-Screening page and filled in a test
InitScreening ==
    /\ users = <<[id |-> 1, username |-> "alice",
                  password |-> hash_password("pw1")]>>
    /\ issued = {[id |-> 1, s |-> "s1", username |-> "alice", password |-> "pw1"]}
    /\ journal_entries = <<>>
    /\ mood_entries = <<>>
    /\ screening_results = <<>>
    /\ txn = <<>>
    /\ clock = 0
    /\ session = [s \in Sessions |->
                    IF s = "s1"
                    THEN [logged_in |-> TRUE, is_moderator |-> FALSE,
                          current_page |-> "Self-Screening",
                          username |-> "alice", user_id |-> 1,
                          cred |-> <<"alice", "pw1">>]
                    ELSE LoggedOut]
    /\ \E test \in Tests : \E answers \in AllAnswers(test) :
          form = [s \in Sessions |->
                    IF s = "s1" THEN [test |-> test, answers |-> answers]
                    ELSE DefaultForm]
    /\ last = Event("page", "s1")

NextScreening ==
    \/ Len(screening_results) < MaxRuns /\ Calculate("s1")
    \/ CalculateCommit("s1")

SpecScreening == InitScreening /\ [][NextScreening]_vars

----------------------------------------------------------------------------
(* Properties of the screening engine, checked under SpecScreening *)

\* the runs the most recent step computed
RunsOf(test) == {last.run[i] : i \in {j \in 1..Len(last.run) : last.run[j].test = test}}

\* the PHQ-9 labels by their half-open ranges, as the specification lists them
C1_Label(score) ==
    CASE 0 <= score /\ score < 10 -> "None to Mild Depression"
      [] 10 <= score /\ score < 15 -> "Moderate Depression"
      [] 15 <= score /\ score < 20 -> "Moderately Severe Depression"
      [] 20 <= score -> "Severe Depression"

\* C1: every PHQ-9 run over answers in 0..3 is labelled by the half-open
\* ranges [0,10), [10,15), [15,20), [20,inf), and never "Unknown"; the row
\* it stores carries the same label.
C1_PHQ9Category ==
    /\ \A run \in RunsOf(PHQ9) :
          /\ run.category = C1_Label(run.total_score)
          /\ run.category # "Unknown"
    /\ \A i \in 1..Len(screening_results) :
          screening_results[i].test_type = PHQ9 =>
             screening_results[i].category = C1_Label(screening_results[i].score)

\* a PHQ-9 run at the boundary 20 was stored as "Severe Depression"
C1_Witness ==
    /\ last.op = "screening"
    /\ \E run \in RunsOf(PHQ9) : run.total_score = 20
    /\ \E i \in 1..Len(screening_results) :
          /\ screening_results[i].score = 20
          /\ screening_results[i].category = "Severe Depression"

\* the GAD-7 labels by their half-open ranges, as the specification lists them
C2_Label(score) ==
    CASE 0 <= score /\ score < 10 -> "None to Mild Anxiety"
      [] 10 <= score /\ score < 15 -> "Moderate Anxiety"
      [] 15 <= score -> "Severe Anxiety"

\* C2: every GAD-7 run over answers in 0..3 is labelled by the half-open
\* ranges [0,10), [10,15), [15,inf), and never "Unknown".
C2_GAD7Category ==
    /\ \A run \in RunsOf(GAD7) :
          /\ run.category = C2_Label(run.total_score)
          /\ run.category # "Unknown"
          /\ run.total_score = 9 => run.category = "None to Mild Anxiety"
          /\ run.total_score = 10 => run.category = "Moderate Anxiety"
          /\ run.total_score = 15 => run.category = "Severe Anxiety"
    /\ \A i \in 1..Len(screening_results) :
          screening_results[i].test_type = GAD7 =>
             screening_results[i].category = C2_Label(screening_results[i].score)

\* a GAD-7 run at the boundary 10 was stored as "Moderate Anxiety"
C2_Witness ==
    /\ last.op = "screening"
    /\ \E run \in RunsOf(GAD7) : run.total_score = 10
    /\ \E i \in 1..Len(screening_results) :
          /\ screening_results[i].score = 10
          /\ screening_results[i].category = "Moderate Anxiety"

\* C3: for both tests, a completed run displays the crisis content if and
\* only if its total score is at least 10.
C3_EscalateIffTen ==
    last.op = "screening" =>
       \A i \in 1..Len(last.run) :
          /\ (EMERGENCY_HELPLINE \in last.shown) <=> (last.run[i].total_score >= 10)
          /\ last.run[i].total_score = 9 => last.shown = {}
          /\ last.run[i].total_score = 10 => EMERGENCY_HELPLINE \in last.shown

\* a run scoring exactly 10 displayed the helpline
C3_Witness ==
    /\ last.op = "screening"
    /\ \E i \in 1..Len(last.run) : last.run[i].total_score = 10
    /\ EMERGENCY_HELPLINE \in last.shown

\* the sum of an answer sheet, written out
C4_Total(a) ==
    IF Len(a) = 9
    THEN a[1] + a[2] + a[3] + a[4] + a[5] + a[6] + a[7] + a[8] + a[9]
    ELSE a[1] + a[2] + a[3] + a[4] + a[5] + a[6] + a[7]

\* C4: total_score is the arithmetic sum of the N answers; it lies in
\* 0..36 for PHQ-9 (N = 9) and in 0..21 for GAD-7 (N = 7).
C4_TotalScore ==
    \A i \in 1..Len(last.run) :
       LET run == last.run[i]
       IN  /\ Len(run.answers) = (IF run.test = PHQ9 THEN 9 ELSE 7)
           /\ run.total_score = C4_Total(run.answers)
           /\ run.test = PHQ9 => run.total_score \in 0..36
           /\ run.test = GAD7 => run.total_score \in 0..21
           /\ last.op = "screening" =>
                 screening_results[Len(screening_results)].score
                    = C4_Total(run.answers)

\* the highest sheets were scored: 27 on PHQ-9 or 21 on GAD-7, and stored
C4_Witness ==
    /\ last.op = "screening"
    /\ \E i \in 1..Len(last.run) :
          /\ last.run[i].answers = [q \in 1..7 |-> 3]
          /\ last.run[i].total_score = 21
    /\ screening_results[Len(screening_results)].score = 21

----------------------------------------------------------------------------
(* Properties of the credential store, checked under SpecCredentials *)

UsernameStored(rows, username) ==
    \E i \in 1..Len(rows) : rows[i].username = username

\* C6: a signup with a username that is already stored returns False, shows
\* the duplicate error, inserts nothing and leaves every stored row as it was.
C6_DuplicateSignup ==
    [][(last'.op = "signup" /\ UsernameStored(users, last'.username)) =>
          /\ last'.ok = FALSE
          /\ last'.shown = {"Username already exists."}
          /\ users' = users
          /\ txn' = <<>>]_vars

\* a signup for a stored username with another password was refused, and
\* the stored row still holds the first password's hash
C6_Witness ==
    /\ last.op = "signup"
    /\ ~last.ok
    /\ \E i \in 1..Len(users) :
          /\ users[i].username = last.username
          /\ \E a \in issued :
                /\ a.id = users[i].id
                /\ a.password # last.password
                /\ users[i].password = hash_password(a.password)

\* C7: whatever the interleaving of two sessions' signups, at most one signup
\* per username succeeds, and no two stored users share a username or an id.
C7_UniqueUsers ==
    /\ \A i, j \in 1..Len(users) :
          i # j => /\ users[i].username # users[j].username
                   /\ users[i].id # users[j].id
    /\ \A a, b \in issued : a.username = b.username => a = b
    /\ Cardinality(issued) = Len(users)

\* both sessions signed up with one username: the first holds the row, the
\* second was refused
C7_Witness ==
    /\ last.op = "signup"
    /\ ~last.ok
    /\ \E a \in issued : a.username = last.username /\ a.s # last.s

\* C8: login with the username and password of a successful signup returns
\* the stored row with the id issued at signup; login with that username
\* and another password returns no user.
C8_Login ==
    /\ \A a \in issued :
          /\ Len(login(a.username, a.password)) = 1
          /\ login(a.username, a.password)[1].id = a.id
          /\ login(a.username, a.password)[1].username = a.username
          /\ \A p \in Passwords \ {a.password} : login(a.username, p) = <<>>
    /\ (last.op = "login" /\ last.user # <<>>) =>
          /\ \E a \in issued : /\ a.username = last.username
                               /\ a.password = last.password
                               /\ a.id = last.user[1].id
          /\ session[last.s].logged_in
          /\ session[last.s].user_id = last.user[1].id
    /\ (last.op = "login" /\ ~last.ok) =>
          ~\E a \in issued : a.username = last.username /\ a.password = last.password

\* a user who signed up logged in and got the row of that signup, after a
\* second user had signed up
C8_Witness ==
    /\ last.op = "login"
    /\ last.user # <<>>
    /\ Len(users) = 2
    /\ \E a \in issued : a.id = last.user[1].id /\ a.id = 1
                         /\ a.username = last.username

\* the Login form's outcome when neither branch logs the session in
FailedLogin(sess, username, password) ==
    ~login_form_submit(sess, username, password).session.logged_in

\* C9: a failed login is uniform: whether the username is unknown or the
\* password is wrong, login returns no row, the session state is left as it
\* was and the same error is displayed.
C9_UniformFailure ==
    /\ \A s \in Sessions : ~session[s].logged_in =>
          \A u1, u2 \in Usernames, p1, p2 \in Passwords :
             (FailedLogin(session[s], u1, p1) /\ FailedLogin(session[s], u2, p2)) =>
                /\ login_form_submit(session[s], u1, p1)
                     = login_form_submit(session[s], u2, p2)
                /\ login_form_submit(session[s], u1, p1).session = session[s]
    /\ (last.op = "login" /\ ~last.ok) =>
          /\ last.user = <<>>
          /\ last.shown = {"Invalid username or password"}
          /\ session[last.s] = LoggedOut

\* a login failed on a stored username with a wrong password while another
\* username of the model is unknown to the store
C9_Witness ==
    /\ last.op = "login"
    /\ ~last.ok
    /\ UsernameStored(users, last.username)
    /\ \E u \in Usernames : ~UsernameStored(users, u)

----------------------------------------------------------------------------
(* Properties of the personal record store, checked under SpecRecords *)

AllRecords ==
    {journal_entries[i] : i \in 1..Len(journal_entries)}
       \cup {mood_entries[i] : i \in 1..Len(mood_entries)}
       \cup {screening_results[i] : i \in 1..Len(screening_results)}

\* C5: a record appended by one user is never returned by a list query of
\* another: every row a session is shown was appended under the credentials
\* that session is logged in with, and the user_id stamps separate the
\* rows exactly as their authors do.
C5_Isolation ==
    /\ \A i \in 1..Len(last.listed) :
          /\ session[last.s].logged_in
          /\ last.listed[i].by = session[last.s].cred
    /\ \A r1, r2 \in AllRecords : (r1.user_id = r2.user_id) <=> (r1.by = r2.by)

\* a user was shown their own row of a table that also holds a row of
\* another user
C5_Witness ==
    /\ Len(last.listed) = 1
    /\ \/ \E i \in 1..Len(journal_entries) :
             /\ journal_entries[i].by # session[last.s].cred
             /\ last.listed[1] \in {journal_entries[j] : j \in 1..Len(journal_entries)}
       \/ \E i \in 1..Len(mood_entries) :
             /\ mood_entries[i].by # session[last.s].cred
             /\ last.listed[1] \in {mood_entries[j] : j \in 1..Len(mood_entries)}

\* C10: every mood entry, stored or about to be committed, has a score in
\* 1..5; a submission of 0 or 6 never reaches the store.
C10_MoodScore ==
    /\ \A i \in 1..Len(mood_entries) : mood_entries[i].mood_score \in 1..5
    /\ \A i \in 1..Len(txn) :
          txn[i].table = "mood_entries" => txn[i].row.mood_score \in 1..5

\* the scores 1 and 5 were both submitted and stored
C10_Witness ==
    /\ \E i \in 1..Len(mood_entries) : mood_entries[i].mood_score = 1
    /\ \E i \in 1..Len(mood_entries) : mood_entries[i].mood_score = 5

----------------------------------------------------------------------------
(* Input validation and stored results of the screening page, checked under
   SpecScreening *)

\* answer lists the radios cannot produce, made from a sheet they can: one
\* answer dropped, one added, one index raised to 4
Malformed(answers) ==
    {Tail(answers), Append(answers, 0), [answers EXCEPT ![1] = 4]}

MalformedAnswers(test) ==
    UNION {Malformed(answers) : answers \in SampleAnswers(test)}

\* the computation of the Calculate button ends with a score and a label
YieldsScore(test, results) ==
    /\ screening_run(test, results).total_score \in Int
    /\ screening_run(test, results).category \in STRING

ScreeningRows ==
    {screening_results[i] : i \in 1..Len(screening_results)}
       \cup {txn[i].row : i \in {j \in 1..Len(txn) : txn[j].table = "screening_results"}}

\* C12: every ScreeningResult has test_type PHQ-9 or GAD-7, a score of at
\* least 0 and the label its own test's ranges give to its own score.
C12_StoredResult ==
    \A r \in ScreeningRows :
       /\ r.test_type \in {"PHQ-9", "GAD-7"}
       /\ r.score >= 0
       /\ r.test_type = "PHQ-9" => r.category = C1_Label(r.score)
       /\ r.test_type = "GAD-7" => r.category = C2_Label(r.score)

\* a GAD-7 result of 15 or more is stored with its label
C12_Witness ==
    \E i \in 1..Len(screening_results) :
       /\ screening_results[i].test_type = "GAD-7"
       /\ screening_results[i].score >= 15
       /\ screening_results[i].category = "Severe Anxiety"

----------------------------------------------------------------------------
(* Properties of the four relations together, checked under SpecStore *)

IsPrefix(a, b) ==
    /\ Len(a) <= Len(b)
    /\ \A i \in 1..Len(a) : a[i] = b[i]

\* C13: the four relations are append-only: whatever step is taken, every
\* row of users, journal_entries, mood_entries and screening_results is
\* still there afterwards, at its place and with all its fields unchanged.
C13_AppendOnly ==
    [][/\ IsPrefix(users, users')
       /\ IsPrefix(journal_entries, journal_entries')
       /\ IsPrefix(mood_entries, mood_entries')
       /\ IsPrefix(screening_results, screening_results')]_vars

\* a login failed after a user, a journal entry and a screening result had
\* been stored
C13_Witness ==
    /\ last.op = "login"
    /\ ~last.ok
    /\ Len(users) >= 1
    /\ Len(journal_entries) >= 1
    /\ Len(screening_results) >= 1

----------------------------------------------------------------------------
(* Properties of the stored users, checked under SpecCredentials *)

\* C14: every stored username is a non-empty string: signup with an empty
\* username creates no users row.  (signup passes the text input to the
\* INSERT as it is, and NOT NULL lets the empty string through.)
C14_NonEmptyUsernames ==
    \A i \in 1..Len(users) : users[i].username # ""

\* C15: the moderator identity is never stored: no users row, committed or
\* waiting for its commit, has id 0; a session holds user_id 0 only after
\* submitting "moderator" with the configured secret; and a row returned
\* by login never gives a session id 0.
C15_ModeratorNotStored ==
    /\ \A i \in 1..Len(users) : users[i].id # 0
    /\ \A i \in 1..Len(txn) : txn[i].table = "users" => txn[i].row.id # 0
    /\ \A s \in Sessions :
          session[s].user_id = 0 =>
             /\ session[s].is_moderator
             /\ session[s].cred = <<"moderator", MOD_PASSWORD>>
    /\ (last.op = "login" /\ last.user # <<>>) =>
          /\ last.user[1].id # 0
          /\ session[last.s].user_id = last.user[1].id
          /\ \E i \in 1..Len(users) : users[i] = last.user[1]

\* a session has just obtained user_id 0 while a user named "moderator" is
\* stored, and another session is logged in through a stored row
C15_Witness ==
    /\ last.op = "login"
    /\ session[last.s].user_id = 0
    /\ \E i \in 1..Len(users) : users[i].username = "moderator"
    /\ \E s \in Sessions : session[s].logged_in /\ session[s].user_id > 0

----------------------------------------------------------------------------
(* Properties of the ordered reads, checked under SpecRecords *)

\* the step just taken rendered the journal or the mood history
Listing(page) ==
    /\ last.op \in {"page", "journal", "mood"}
    /\ session[last.s].current_page = page

\* the rows listed are exactly the rows of the table that carry user_id
ExactlyOwned(listed, rows, user_id) ==
    /\ Len(listed) = Len(owned(rows, user_id))
    /\ \A i \in 1..Len(rows) :
          rows[i].user_id = user_id <=> \E j \in 1..Len(listed) : listed[j] = rows[i]

\* rows carry the ids of their table in the order they were appended
C16_JournalNewestFirst ==
    Listing("My Journal") =>
       \A i, j \in 1..Len(last.listed) :
          i < j => last.listed[i].id > last.listed[j].id

C16_MoodOldestFirst ==
    Listing("Mood Tracker") =>
       \A i, j \in 1..Len(last.listed) :
          i < j => last.listed[i].id < last.listed[j].id

\* C16: a list query returns exactly the rows appended for the user (the
\* empty sequence when there are none), journal entries newest-first and
\* mood entries oldest-first: of two entries appended one after the other
\* the later one comes first in the journal list and last in the mood list.
C16_ListOrder ==
    /\ Listing("My Journal") =>
          ExactlyOwned(last.listed, journal_entries, session[last.s].user_id)
    /\ Listing("Mood Tracker") =>
          ExactlyOwned(last.listed, mood_entries, session[last.s].user_id)
    /\ C16_JournalNewestFirst
    /\ C16_MoodOldestFirst

----------------------------------------------------------------------------
(* Properties of concurrent sessions, checked under SpecShared *)

\* the rows of a table waiting for their commit
Pending(table) ==
    {txn[i].row : i \in {j \in 1..Len(txn) : txn[j].table = table}}

\* the list query just made returned whole committed rows of its user, all
\* of them
AtomicRead(page, rows) ==
    Listing(page) =>
       /\ ExactlyOwned(last.listed, rows, session[last.s].user_id)
       /\ \A i \in 1..Len(last.listed) :
             \E j \in 1..Len(rows) : rows[j] = last.listed[i]

\* C17: an append is atomic with respect to concurrent sessions: at every
\* point of every interleaving a list query returns a record with all its
\* fields (user_id, timestamp, payload) or not at all, never the row of an
\* INSERT that is not committed; and since every list query returns all
\* committed rows of its user and committed rows stay as they are, a
\* record once listed is listed by every later query for that user.
C17_AtomicAppend ==
    /\ [](/\ AtomicRead("My Journal", journal_entries)
          /\ AtomicRead("Mood Tracker", mood_entries)
          /\ Listing("My Journal") =>
                \A i \in 1..Len(last.listed) :
                   last.listed[i] \notin Pending("journal_entries")
          /\ Listing("Mood Tracker") =>
                \A i \in 1..Len(last.listed) :
                   last.listed[i] \notin Pending("mood_entries"))
    /\ [][/\ IsPrefix(journal_entries, journal_entries')
          /\ IsPrefix(mood_entries, mood_entries')]_vars

\* one session lists the journal of a user, with an entry in it, while
\* another session of the same user is between its INSERT and its commit
C17_Witness ==
    /\ Listing("My Journal")
    /\ Len(last.listed) >= 1
    /\ \E i \in 1..Len(txn) :
          /\ txn[i].table = "journal_entries"
          /\ txn[i].session # last.s
          /\ txn[i].row.user_id = session[last.s].user_id

----------------------------------------------------------------------------
(* Ownership of the records, checked under SpecStore *)

\* C18: the user_id of every journal entry, mood entry and screening result,
\* stored or waiting for its commit, is the id of a row of users or the
\* moderator id 0.
C18_OwnerExists ==
    \A r \in AllRecords \cup Pending("journal_entries")
                        \cup Pending("mood_entries")
                        \cup Pending("screening_results") :
       \/ r.user_id = 0
       \/ \E i \in 1..Len(users) : users[i].id = r.user_id

\* a record of the moderator and a record of a stored user are both stored,
\* one of them a screening result
C18_Witness ==
    /\ \E r \in AllRecords : r.user_id = 0
    /\ \E r \in AllRecords : \E i \in 1..Len(users) : users[i].id = r.user_id
    /\ Len(screening_results) >= 1

----------------------------------------------------------------------------
(* The moderator branch of the Login form, checked under SpecCredentials *)

\* C19: a login submission of "moderator" with the configured secret yields
\* a session with user_id 0 and is_moderator true without a row of the
\* store being used, also when a stored user named "moderator" exists; any
\* other submission is decided by login alone and leaves is_moderator false.
C19_ModeratorBranchFirst ==
    last.op = "login" =>
       IF last.username = "moderator" /\ last.password = MOD_PASSWORD
       THEN /\ last.ok
            /\ last.user = <<>>
            /\ session[last.s].logged_in
            /\ session[last.s].is_moderator
            /\ session[last.s].user_id = 0
            /\ session[last.s].username = "moderator"
       ELSE /\ last.user = login(last.username, last.password)
            /\ last.ok <=> last.user # <<>>
            /\ session[last.s].logged_in <=> last.ok
            /\ ~session[last.s].is_moderator
            /\ last.ok => session[last.s].user_id = last.user[1].id

\* the moderator has just logged in while a user named "moderator" with the
\* same password is stored
C19_Witness ==
    /\ last.op = "login"
    /\ session[last.s].is_moderator
    /\ \E i \in 1..Len(users) :
          /\ users[i].username = "moderator"
          /\ users[i].password = hash_password(MOD_PASSWORD)

----------------------------------------------------------------------------
(* Persistence before escalation, checked under SpecScreening *)

\* the newest screening result is the one of the run just completed
Persisted(run) ==
    /\ screening_results # <<>>
    /\ LET r == screening_results[Len(screening_results)]
       IN  /\ r.user_id = session[last.s].user_id
           /\ r.test_type = run.test
           /\ r.score = run.total_score
           /\ r.category = run.category

\* C20: whenever the crisis helpline is shown after a screening run, a
\* screening result of the current user with that run's total_score (10 or
\* more) and category is already stored; and every completed run, escalating
\* or not, stores exactly one screening result, at its commit.
C20_PersistThenEscalate ==
    /\ [](/\ EMERGENCY_HELPLINE \in last.shown =>
                /\ last.op = "screening"
                /\ last.run[1].total_score >= 10
                /\ Persisted(last.run[1])
          /\ last.op = "screening" => Persisted(last.run[1]))
    /\ [][/\ last'.op = "screening" =>
                /\ Len(screening_results') = Len(screening_results) + 1
                /\ SubSeq(screening_results', 1, Len(screening_results))
                      = screening_results
          /\ last'.op # "screening" => screening_results' = screening_results]_vars

\* a run with a total of 10 or more has shown the helpline, and its result
\* is stored
C20_Witness ==
    /\ last.op = "screening"
    /\ EMERGENCY_HELPLINE \in last.shown
    /\ Len(screening_results) = 1
    /\ screening_results[1].score >= 10

----------------------------------------------------------------------------
(* The identity context of a session *)

\* the ids and usernames an identity can carry: those of the stored users
\* and those of the built-in moderator
KnownIds == {users[i].id : i \in 1..Len(users)} \cup {0}
KnownUsernames == {users[i].username : i \in 1..Len(users)} \cup {"moderator"}

\* C21: Logout clears the identity context: from any logged-in state,
\* moderator or regular user, the session afterwards has logged_in false,
\* is_moderator false, current_page "Home" and no username or user_id, and
\* the four relations are unchanged.  Checked under SpecStore.
C21_LogoutClears ==
    [][last'.op = "logout" =>
          /\ session[last'.s].logged_in
          /\ ~session'[last'.s].logged_in
          /\ ~session'[last'.s].is_moderator
          /\ session'[last'.s].current_page = "Home"
          /\ session'[last'.s].username \notin KnownUsernames'
          /\ session'[last'.s].user_id \notin KnownIds'
          /\ users' = users
          /\ journal_entries' = journal_entries
          /\ mood_entries' = mood_entries
          /\ screening_results' = screening_results]_vars

\* a session has just logged out, after the moderator and a stored user
\* had each left a record
C21_Witness ==
    /\ last.op = "logout"
    /\ ~session[last.s].logged_in
    /\ \E r \in AllRecords : r.user_id = 0
    /\ \E r \in AllRecords : r.user_id > 0

\* C22: in every reachable session state, is_moderator implies logged_in,
\* user_id = 0 and username "moderator"; logged_in without is_moderator
\* implies that user_id and username are those of one stored users row; and
\* not logged_in implies is_moderator is false.  Checked under
\* SpecCredentials.
C22_SessionInvariant ==
    \A s \in Sessions :
       /\ session[s].is_moderator =>
             /\ session[s].logged_in
             /\ session[s].user_id = 0
             /\ session[s].username = "moderator"
       /\ (session[s].logged_in /\ ~session[s].is_moderator) =>
             \E i \in 1..Len(users) :
                /\ users[i].id = session[s].user_id
                /\ users[i].username = session[s].username
       /\ ~session[s].logged_in => ~session[s].is_moderator

\* one session is the moderator, the other is logged in through a stored
\* row whose username is also "moderator"
C22_Witness ==
    \E s1, s2 \in Sessions :
       /\ session[s1].is_moderator
       /\ session[s2].logged_in
       /\ ~session[s2].is_moderator
       /\ session[s2].username = "moderator"

----------------------------------------------------------------------------
(* Records and the identity of the session, checked under SpecStore *)

RecordTables == {"journal_entries", "mood_entries", "screening_results"}
RecordOps == {"journal", "journal_insert", "mood", "mood_insert",
              "screening", "screening_insert"}

\* the rows a step has added to the three record tables
Added ==
    {journal_entries'[i] : i \in Len(journal_entries) + 1..Len(journal_entries')}
       \cup {mood_entries'[i] : i \in Len(mood_entries) + 1..Len(mood_entries')}
       \cup {screening_results'[i] :
                i \in Len(screening_results) + 1..Len(screening_results')}

\* C23: no record is appended or listed while the session is logged out;
\* every append, at its INSERT and at its commit, carries the user_id the
\* session holds at that moment; a logged-in session's user_id changes only
\* through Logout; login and signup are taken only while logged out, and
\* signup leaves the session as it is.
C23_IdentityOfAppends ==
    [][/\ (last'.op \in RecordOps \/ last'.listed # <<>>) =>
             /\ session[last'.s].logged_in
             /\ session'[last'.s].logged_in
             /\ session'[last'.s].user_id = session[last'.s].user_id
       /\ \A i \in 1..Len(txn') :
             txn'[i].table \in RecordTables =>
                /\ session[txn'[i].session].logged_in
                /\ txn'[i].row.user_id = session[txn'[i].session].user_id
       /\ \A r \in Added :
             /\ last'.op \in RecordOps
             /\ r.user_id = session[last'.s].user_id
       /\ \A s \in Sessions :
             (session[s].logged_in /\ session'[s].user_id # session[s].user_id) =>
                (last'.op = "logout" /\ last'.s = s)
       /\ last'.op \in {"login", "signup", "signup_insert"} =>
             ~session[last'.s].logged_in
       /\ last'.op \in {"signup", "signup_insert"} => session' = session]_vars

\* a stored user has just saved and listed a journal entry in a session
\* that had earlier stored a record under another identity
C23_Witness ==
    /\ last.op = "journal"
    /\ last.ok
    /\ last.listed # <<>>
    /\ session[last.s].user_id > 0
    /\ journal_entries[Len(journal_entries)].user_id = session[last.s].user_id
    /\ \E r \in AllRecords : r.user_id # session[last.s].user_id

=============================================================================
